---- MODULE Spec2Model ----
(***************************************************************************)
(* A model of the jax-autodiff computation graph (src/src/core/tracer.py), *)
(* its reverse-mode differentiation (src/src/core/autodiff.py) and the     *)
(* optimizing pass pipeline (src/src/core/compiler.py and                  *)
(* src/src/optimizations).                                                 *)
(*                                                                         *)
(* Nodes live in a heap: a sequence of records, the index of a record      *)
(* being the node's identity (Node.id, a uuid in the source).  Passes      *)
(* that assign node.inputs rewrite the record in place; passes that call   *)
(* Node(...) append a record.                                              *)
(*                                                                         *)
(* Scalars are exact rationals <<numerator, denominator>> in lowest terms  *)
(* with a positive denominator.  A raised exception is a pair with         *)
(* denominator 0, the numerator naming the exception class.                *)
(***************************************************************************)
EXTENDS Integers, Sequences, FiniteSets, TLC

VARIABLES heap, last, prev, calls, pc, cache, walk

vars == <<heap, last, prev, calls, pc, cache, walk>>

(***************************************************************************)
(* Bounds of the exploration.                                              *)
(***************************************************************************)
\* the tracer builds at most this many nodes
MaxNodes == 4
\* at most this many operations are applied to a built graph
MaxCalls == 2

\* the largest expression the tracer builds before compile is applied to it
MaxExpr == 5

\* how many nodes with inputs are given a value by assignment
MaxCached == 1

\* how many times the jitted function is called
MaxJitCalls == 3

\* the arguments it is called with, each as an int or as a float
JitVals == 0..3

ArgTypes == {"int", "float"}

\* the argnums grad is given: an int k is the tuple (k,)
Argnums == {<<0>>, <<1>>, <<0, 1>>, <<1, 0>>}

\* the numbers the differentiated function is called on
GradVals == 0..3
\* literals a constant node is built from
Vals == {0, 1, 2}
\* seed gradients handed to compute_gradients
Seeds == {1, 2}
\* the points x at which examples/complex_autodiff.py is run
MainVals == -5..5

(***************************************************************************)
(* Scalars and exceptions.                                                 *)
(***************************************************************************)
None == <<>>

ZeroDivisionError == <<1, 0>>

ValueError == <<2, 0>>

StopIteration == <<3, 0>>

IndexError == <<4, 0>>

IsErr(v) == Len(v) = 2 /\ v[2] = 0

Abs(x) == IF x < 0 THEN -x ELSE x

RECURSIVE Gcd(_, _)
Gcd(a, b) == IF b = 0 THEN a ELSE Gcd(b, a % b)

\* the rational n/d (d # 0) in lowest terms
Rat(n, d) ==
  LET g == Gcd(Abs(n), Abs(d))
      s == IF d < 0 THEN -1 ELSE 1
  IN  <<(s * n) \div g, (s * d) \div g>>

Num(k) == <<k, 1>>

py_add(a, b) == Rat(a[1] * b[2] + b[1] * a[2], a[2] * b[2])

py_mul(a, b) == Rat(a[1] * b[1], a[2] * b[2])

py_neg(a) == <<-a[1], a[2]>>

\* Python's a / b on numbers raises ZeroDivisionError when b is zero
py_div(a, b) == IF b[1] = 0 THEN ZeroDivisionError ELSE Rat(a[1] * b[2], a[2] * b[1])

\* the first exception in a sequence of results, None when there is none
RECURSIVE FirstErr(_)
FirstErr(vs) ==
  IF vs = <<>> THEN None
  ELSE IF IsErr(Head(vs)) THEN Head(vs) ELSE FirstErr(Tail(vs))

(***************************************************************************)
(* The graph IR and the tracer.                                            *)
(***************************************************************************)
\* metadata.get('shape') of a node without the key
NoKey == <<>>

\* Node.__init__: a fresh node; grad is None and the metadata is empty
Node(op, inputs, value) ==
  [op |-> op, inputs |-> inputs, value |-> value, grad |-> None,
   fused_ops |-> <<>>, original_nodes |-> <<>>, shape |-> NoKey]

Ids(h) == 1..Len(h)

\* the heap after Node(...) has run, and the identity of the new node
Alloc(h, node) == [h |-> Append(h, node), r |-> Len(h) + 1]

constant(h, v) == Alloc(h, Node("const", <<>>, Num(v)))

\* constant(None): a constant node that holds no value
constant_none(h) == Alloc(h, Node("const", <<>>, None))

add(h, a, b) == Alloc(h, Node("add", <<a, b>>, None))

mul(h, a, b) == Alloc(h, Node("mul", <<a, b>>, None))

div(h, a, b) == Alloc(h, Node("div", <<a, b>>, None))

\* the scalar branch of evaluate: float(inputs[0] op inputs[1])
ApplyOp(op, ins) ==
  IF op \notin {"add", "mul", "div"} THEN ValueError
  ELSE IF Len(ins) < 2 THEN IndexError
  ELSE IF op = "add" THEN py_add(ins[1], ins[2])
  ELSE IF op = "mul" THEN py_mul(ins[1], ins[2])
  ELSE py_div(ins[1], ins[2])

\* tracer.evaluate: a cached value is returned without recursion; otherwise
\* the inputs are evaluated in order (the first exception propagates) and
\* the operator is applied; an unknown operator raises ValueError
RECURSIVE evaluate(_, _)
evaluate(h, n) ==
  IF h[n].value # None THEN h[n].value
  ELSE LET ins == [i \in 1..Len(h[n].inputs) |-> evaluate(h, h[n].inputs[i])]
           e == FirstErr(ins)
       IN  IF e # None THEN e ELSE ApplyOp(h[n].op, ins)

\* trace storing what it evaluated in node.value
trace_caching(h, node) ==
  LET v == evaluate(h, node)
  IN  [h |-> IF IsErr(v) THEN h ELSE [h EXCEPT ![node].value = v], r |-> v]

\* tracer.trace on a node: evaluate(node); no node is assigned to
trace(h, node) == [h |-> h, r |-> evaluate(h, node)]

\* the nodes reachable from n through input edges, n included
RECURSIVE Reach(_, _)
Reach(h, n) ==
  {n} \cup UNION {Reach(h, h[n].inputs[i]) : i \in 1..Len(h[n].inputs)}

(***************************************************************************)
(* Constant folding (optimizations/constant_folding.py).                   *)
(***************************************************************************)
RECURSIVE SumOf(_)
SumOf(vs) == IF vs = <<>> THEN Num(0) ELSE py_add(Head(vs), SumOf(Tail(vs)))

RECURSIVE ProdOf(_)
ProdOf(vs) == IF Len(vs) = 1 THEN vs[1] ELSE py_mul(Head(vs), ProdOf(Tail(vs)))

\* FoldValue with the mul branch accumulating with + instead of *
FoldValue_MulAsSum(op, values) ==
  IF op = "add" THEN SumOf(values)
  ELSE IF op = "mul" /\ values # <<>> THEN SumOf(values)
  ELSE None

\* a constant holding None among the values: sum(values) and folded_value *= v
\* raise TypeError on it
HasNone(values) == \E i \in 1..Len(values) : values[i] = None

\* FoldValue reading a constant without a value as 0 instead of failing
FoldValue_NoneAsZero(op, values) ==
  LET vs == [i \in 1..Len(values) |-> IF values[i] = None THEN Num(0) ELSE values[i]]
  IN  IF op = "add" THEN SumOf(vs)
      ELSE IF op = "mul" /\ vs # <<>> THEN ProdOf(vs)
      ELSE None

\* the value an all-constant node folds to; None when the node is returned
\* unfolded (an operator other than add and mul, or the try block raising:
\* values[0] of no values, arithmetic on a constant holding None)
FoldValue(op, values) ==
  IF op \in {"add", "mul"} /\ HasNone(values) THEN None
  ELSE IF op = "add" THEN SumOf(values)
  ELSE IF op = "mul" /\ values # <<>> THEN ProdOf(values)
  ELSE None

RECURSIVE cf_helper(_, _)
RECURSIVE cf_inputs(_, _, _)
\* [helper(inp) for inp in node.inputs], left to right on one heap
cf_inputs(h, ins, acc) ==
  IF ins = <<>> THEN [h |-> h, rs |-> acc]
  ELSE LET x == cf_helper(h, Head(ins))
       IN  cf_inputs(x.h, Tail(ins), Append(acc, x.r))

\* cf_helper emptying the inputs of the node it replaces by a constant
cf_helper_clears_folded(h, n) ==
  IF h[n].op = "const" THEN [h |-> h, r |-> n]
  ELSE LET x == cf_inputs(h, h[n].inputs, <<>>)
           h1 == [x.h EXCEPT ![n].inputs = x.rs]
           allConst == \A i \in 1..Len(x.rs) : h1[x.rs[i]].op = "const"
           values == [i \in 1..Len(x.rs) |-> h1[x.rs[i]].value]
           folded == FoldValue(h1[n].op, values)
       IN  IF allConst /\ folded # None
           THEN Alloc([h1 EXCEPT ![n].inputs = <<>>], Node("const", <<>>, folded))
           ELSE [h |-> h1, r |-> n]

\* helper of constant_folding.optimize
cf_helper(h, n) ==
  IF h[n].op = "const" THEN [h |-> h, r |-> n]
  ELSE LET x == cf_inputs(h, h[n].inputs, <<>>)
           h1 == [x.h EXCEPT ![n].inputs = x.rs]
           allConst == \A i \in 1..Len(x.rs) : h1[x.rs[i]].op = "const"
           values == [i \in 1..Len(x.rs) |-> h1[x.rs[i]].value]
           folded == FoldValue(h1[n].op, values)
       IN  IF allConst /\ folded # None
           THEN Alloc(h1, Node("const", <<>>, folded))
           ELSE [h |-> h1, r |-> n]

constant_folding_optimize(h, graph) == cf_helper(h, graph)

(***************************************************************************)
(* Common subexpression elimination (optimizations/cse.py).                *)
(***************************************************************************)
\* subexpr_map is a sequence of [key, node] entries, one per key
Lookup(m, key) ==
  IF \E i \in 1..Len(m) : m[i].key = key
  THEN m[CHOOSE i \in 1..Len(m) : m[i].key = key].node
  ELSE 0

RECURSIVE cse_helper(_, _, _)
RECURSIVE cse_inputs(_, _, _, _)
cse_inputs(h, m, ins, acc) ==
  IF ins = <<>> THEN [h |-> h, m |-> m, rs |-> acc]
  ELSE LET x == cse_helper(h, m, Head(ins))
       IN  cse_inputs(x.h, x.m, Tail(ins), Append(acc, x.r))

\* cse_helper returning the node it visits also when its key is on file
cse_helper_keeps_later(h, m, n) ==
  IF h[n].inputs = <<>> THEN [h |-> h, m |-> m, r |-> n]
  ELSE LET x == cse_inputs(h, m, h[n].inputs, <<>>)
           key == <<h[n].op, x.rs, h[n].value>>
       IN  [h |-> [x.h EXCEPT ![n].inputs = x.rs],
            m |-> Append(x.m, [key |-> key, node |-> n]),
            r |-> n]

\* cse_helper filing the node under its operator alone, and before it
\* visits the inputs
cse_helper_files_first(h, m, n) ==
  IF h[n].inputs = <<>> THEN [h |-> h, m |-> m, r |-> n]
  ELSE LET key == <<h[n].op>>
           hit == Lookup(m, key)
       IN  IF hit # 0
           THEN [h |-> h, m |-> m, r |-> hit]
           ELSE LET x == cse_inputs(h, Append(m, [key |-> key, node |-> n]),
                                    h[n].inputs, <<>>)
                IN  [h |-> [x.h EXCEPT ![n].inputs = x.rs], m |-> x.m, r |-> n]

\* helper of cse.optimize: a node without inputs is returned as it is
cse_helper(h, m, n) ==
  IF h[n].inputs = <<>> THEN [h |-> h, m |-> m, r |-> n]
  ELSE LET x == cse_inputs(h, m, h[n].inputs, <<>>)
           key == <<h[n].op, x.rs, h[n].value>>
           hit == Lookup(x.m, key)
       IN  IF hit # 0
           THEN [h |-> x.h, m |-> x.m, r |-> hit]
           ELSE [h |-> [x.h EXCEPT ![n].inputs = x.rs],
                 m |-> Append(x.m, [key |-> key, node |-> n]),
                 r |-> n]

cse_optimize(h, graph) ==
  LET x == cse_helper(h, <<>>, graph) IN [h |-> x.h, r |-> x.r]

(***************************************************************************)
(* Dead code elimination (optimizations/dead_code.py).                     *)
(***************************************************************************)
\* mark: the identities reachable from the root
RECURSIVE mark(_, _, _)
RECURSIVE mark_inputs(_, _, _)
mark_inputs(h, reachable, ins) ==
  IF ins = <<>> THEN reachable
  ELSE mark_inputs(h, mark(h, reachable, Head(ins)), Tail(ins))

mark(h, reachable, n) ==
  IF n \in reachable THEN reachable
  ELSE mark_inputs(h, reachable \cup {n}, h[n].inputs)

\* dead_code_optimize dropping from the root an input it has marked already
dead_code_optimize_dedup(h, graph) ==
  LET reachable == mark(h, {}, graph)
      ins == h[graph].inputs
      kept == IF Len(ins) = 2 /\ ins[1] = ins[2] THEN <<ins[1]>> ELSE ins
  IN  [h |-> [h EXCEPT ![graph].inputs = kept], r |-> graph, reachable |-> reachable]

\* the marking is computed and logged; the graph is returned as it came
dead_code_optimize(h, graph) ==
  LET reachable == mark(h, {}, graph)
  IN  [h |-> h, r |-> graph, reachable |-> reachable]

(***************************************************************************)
(* Operation fusion (optimizations/fusion.py).                             *)
(***************************************************************************)
\* METAL_FUSION_PATTERNS.get((p, c)); None when the pair is not in the table
METAL_FUSION_PATTERNS(p, c) ==
  IF p = "mul" /\ c = "add" THEN "fma"
  ELSE IF p = "mul" /\ c = "mul" THEN "mul2"
  ELSE IF p = "add" /\ c = "add" THEN "add2"
  ELSE IF p = "mul" /\ c = "div" THEN "scale"
  ELSE "None"

InSeq(x, s) == \E i \in 1..Len(s) : s[i] = x

can_fuse(h, op1, op2) ==
  IF METAL_FUSION_PATTERNS(h[op1].op, h[op2].op) = "None" THEN FALSE
  ELSE IF Len(h[op2].inputs) # 2 \/ ~InSeq(op1, h[op2].inputs) THEN FALSE
  ELSE IF h[op1].shape # NoKey /\ h[op2].shape # NoKey THEN h[op1].shape = h[op2].shape
  ELSE TRUE

\* [inp for op in ops for inp in op.inputs if inp != first]
RECURSIVE OtherInputs(_, _, _)
OtherInputs(h, ops, first) ==
  IF ops = <<>> THEN <<>>
  ELSE SelectSeq(h[Head(ops)].inputs, LAMBDA inp : inp # first)
       \o OtherInputs(h, Tail(ops), first)

\* metadata.get('shape') stored under the key 'shape': <<0>> stands for None
ShapeOf(node) == IF node.shape = NoKey THEN <<0>> ELSE node.shape

create_fused_op(h, ops) ==
  IF Len(ops) < 2 THEN [h |-> h, r |-> ops[1]]
  ELSE LET fused_type == METAL_FUSION_PATTERNS(h[ops[1]].op, h[ops[2]].op)
       IN  IF fused_type = "None" THEN [h |-> h, r |-> ops[1]]
           ELSE Alloc(h,
                  [Node(fused_type,
                        h[ops[1]].inputs \o OtherInputs(h, Tail(ops), ops[1]),
                        None)
                   EXCEPT !.fused_ops = [i \in 1..Len(ops) |-> h[ops[i]].op],
                          !.original_nodes = ops,
                          !.shape = ShapeOf(h[ops[1]])])

\* the while loop of find_fusion_candidates.visit: walk back through the
\* first input as long as it fuses with its consumer
RECURSIVE build_group(_, _, _)
build_group(h, group, current) ==
  IF Len(h[current].inputs) = 2 /\ can_fuse(h, h[current].inputs[1], current)
  THEN build_group(h, <<h[current].inputs[1]>> \o group, h[current].inputs[1])
  ELSE group

RECURSIVE ffc_visit(_, _, _)
RECURSIVE ffc_inputs(_, _, _)
ffc_inputs(h, st, ins) ==
  IF ins = <<>> THEN st
  ELSE ffc_inputs(h, ffc_visit(h, st, Head(ins)), Tail(ins))

\* visit of find_fusion_candidates; st is [visited, candidates]
ffc_visit(h, st, n) ==
  IF n \in st.visited THEN st
  ELSE LET st1 == ffc_inputs(h, [st EXCEPT !.visited = @ \cup {n}], h[n].inputs)
           group == build_group(h, <<n>>, n)
       IN  IF h[n].inputs # <<>> /\ Len(group) > 1
           THEN [st1 EXCEPT !.candidates = Append(@, group)]
           ELSE st1

find_fusion_candidates(h, graph) ==
  ffc_visit(h, [visited |-> {}, candidates |-> <<>>], graph).candidates

\* replacements[old_node.id] = fused for every member of every group, the
\* groups taken in order; 0 stands for an identity without replacement
RECURSIVE build_replacements(_, _, _)
build_replacements(h, repl, groups) ==
  IF groups = <<>> THEN [h |-> h, repl |-> repl]
  ELSE LET f == create_fused_op(h, Head(groups))
           members == {Head(groups)[i] : i \in 1..Len(Head(groups))}
       IN  build_replacements(f.h,
             [n \in DOMAIN repl |-> IF n \in members THEN f.r ELSE repl[n]],
             Tail(groups))

RECURSIVE replace_node(_, _, _, _)
RECURSIVE replace_inputs(_, _, _, _, _)
replace_inputs(h, repl, visited, ins, acc) ==
  IF ins = <<>> THEN [h |-> h, visited |-> visited, rs |-> acc]
  ELSE LET x == replace_node(h, repl, visited, Head(ins))
       IN  replace_inputs(x.h, repl, x.visited, Tail(ins), Append(acc, x.r))

replace_node(h, repl, visited, n) ==
  IF n \in visited
  THEN [h |-> h, visited |-> visited, r |-> IF repl[n] # 0 THEN repl[n] ELSE n]
  ELSE IF repl[n] # 0
  THEN [h |-> h, visited |-> visited \cup {n}, r |-> repl[n]]
  ELSE LET x == replace_inputs(h, repl, visited \cup {n}, h[n].inputs, <<>>)
       IN  IF x.rs # h[n].inputs
           THEN LET a == Alloc(x.h,
                           [Node(h[n].op, x.rs, None)
                            EXCEPT !.fused_ops = h[n].fused_ops,
                                   !.original_nodes = h[n].original_nodes,
                                   !.shape = h[n].shape])
                IN  [h |-> a.h, visited |-> x.visited, r |-> a.r]
           ELSE [h |-> x.h, visited |-> x.visited, r |-> n]

fusion_optimize(h, graph) ==
  LET fusion_groups == find_fusion_candidates(h, graph)
  IN  IF fusion_groups = <<>> THEN [h |-> h, r |-> graph]
      ELSE LET b == build_replacements(h, [n \in Ids(h) |-> 0], fusion_groups)
               x == replace_node(b.h, b.repl, {}, graph)
           IN  [h |-> x.h, r |-> x.r]

(***************************************************************************)
(* Pattern rewriting (optimizations/patterns.py, compiler.apply_patterns). *)
(***************************************************************************)
HasLiteral(h, n, k) ==
  \E i \in 1..Len(h[n].inputs) :
     h[h[n].inputs[i]].value # None /\ h[h[n].inputs[i]].value = Num(k)

\* patterns[0].match: x * 0
match_mul_zero(h, n) == h[n].op = "mul" /\ HasLiteral(h, n, 0)

\* patterns[1].match: x * 1
match_mul_one(h, n) == h[n].op = "mul" /\ HasLiteral(h, n, 1)

\* patterns[0].replace: constant(0)
replace_mul_zero(h, n) ==
  LET a == constant(h, 0) IN [h |-> a.h, r |-> a.r, err |-> None]

\* patterns[1].replace: next(i for i in n.inputs if i.value != 1), which
\* raises StopIteration when every input is the literal 1
replace_mul_one(h, n) ==
  LET keep == SelectSeq(h[n].inputs, LAMBDA i : h[i].value # Num(1))
  IN  IF keep = <<>> THEN [h |-> h, r |-> n, err |-> StopIteration]
      ELSE [h |-> h, r |-> keep[1], err |-> None]

RECURSIVE pat_helper(_, _)
RECURSIVE pat_inputs(_, _, _)
\* [helper(inp) for inp in node.inputs]; an exception ends the comprehension
pat_inputs(h, ins, acc) ==
  IF ins = <<>> THEN [h |-> h, rs |-> acc, err |-> None]
  ELSE LET x == pat_helper(h, Head(ins))
       IN  IF x.err # None THEN [h |-> x.h, rs |-> acc, err |-> x.err]
           ELSE pat_inputs(x.h, Tail(ins), Append(acc, x.r))

\* pat_helper matching the node against its inputs as they were before the
\* rewrite
pat_helper_match_first(h, n) ==
  LET x == pat_inputs(h, h[n].inputs, <<>>)
      h1 == [x.h EXCEPT ![n].inputs = x.rs]
  IN  IF x.err # None THEN [h |-> x.h, r |-> n, err |-> x.err]
      ELSE IF match_mul_zero(h, n) THEN replace_mul_zero(h1, n)
      ELSE IF match_mul_one(h, n) THEN replace_mul_one(h1, n)
      ELSE [h |-> h1, r |-> n, err |-> None]

\* helper of apply_patterns: rewrite the inputs, assign them, first match wins
pat_helper(h, n) ==
  LET x == pat_inputs(h, h[n].inputs, <<>>)
      h1 == [x.h EXCEPT ![n].inputs = x.rs]
  IN  IF x.err # None THEN [h |-> x.h, r |-> n, err |-> x.err]
      ELSE IF match_mul_zero(h1, n) THEN replace_mul_zero(h1, n)
      ELSE IF match_mul_one(h1, n) THEN replace_mul_one(h1, n)
      ELSE [h |-> h1, r |-> n, err |-> None]

apply_patterns(h, graph) == pat_helper(h, graph)

(***************************************************************************)
(* The pass pipeline (core/compiler.py).                                   *)
(***************************************************************************)
\* Compiler.compile: the five passes in their fixed order, each fed the
\* root the one before it returned
compile(h, graph) ==
  LET p1 == constant_folding_optimize(h, graph)
      p2 == cse_optimize(p1.h, p1.r)
      p3 == dead_code_optimize(p2.h, p2.r)
      p4 == fusion_optimize(p3.h, p3.r)
  IN  apply_patterns(p4.h, p4.r)

(***************************************************************************)
(* Reverse-mode differentiation (core/autodiff.py).                        *)
(***************************************************************************)
RECURSIVE ts_visit(_, _, _)
RECURSIVE ts_inputs(_, _, _)
ts_inputs(h, st, ins) ==
  IF ins = <<>> THEN st
  ELSE ts_inputs(h, ts_visit(h, st, Head(ins)), Tail(ins))

\* ts_visit without the test on visited
ts_visit_revisiting(h, st, n) ==
  LET st1 == ts_inputs(h, [st EXCEPT !.visited = @ \cup {n}], h[n].inputs)
  IN  [st1 EXCEPT !.order = Append(@, n)]

\* ts_visit appending the node before it visits the inputs
ts_visit_preorder(h, st, n) ==
  IF n \in st.visited THEN st
  ELSE ts_inputs(h, [st EXCEPT !.visited = @ \cup {n}, !.order = Append(@, n)],
                 h[n].inputs)

\* visit of topological_sort; st is [visited, order]
ts_visit(h, st, n) ==
  IF n \in st.visited THEN st
  ELSE LET st1 == ts_inputs(h, [st EXCEPT !.visited = @ \cup {n}], h[n].inputs)
       IN  [st1 EXCEPT !.order = Append(@, n)]

topological_sort(h, node) ==
  ts_visit(h, [visited |-> {}, order |-> <<>>], node).order

\* autodiff.evaluate: dispatches on the operator and never reads a cached
\* value of a node that is not a constant
RECURSIVE ad_evaluate(_, _)
ad_evaluate(h, n) ==
  IF h[n].op = "const" THEN h[n].value
  ELSE IF h[n].op \in {"add", "mul", "div"}
  THEN LET a == ad_evaluate(h, h[n].inputs[1])
       IN  IF IsErr(a) THEN a
           ELSE LET b == ad_evaluate(h, h[n].inputs[2])
                IN  IF IsErr(b) THEN b ELSE ApplyOp(h[n].op, <<a, b>>)
  ELSE ValueError

\* value(x): x.value if x.value is not None else evaluate(x)
ValueOf(h, x) == IF h[x].value # None THEN h[x].value ELSE ad_evaluate(h, x)

\* AddGrad assigning instead of accumulating: inp.grad = g
AddGrad_overwrite(h, inp, g) == [h EXCEPT ![inp].grad = g]

\* inp.grad += g
AddGrad(h, inp, g) == [h EXCEPT ![inp].grad = py_add(@, g)]

RECURSIVE AddGradAll(_, _, _)
AddGradAll(h, ins, g) ==
  IF ins = <<>> THEN h ELSE AddGradAll(AddGrad(h, Head(ins), g), Tail(ins), g)

\* the add branch: every input receives n.grad
grad_add(h, n) == [h |-> AddGradAll(h, h[n].inputs, h[n].grad), err |-> None]

\* grad_mul with the operand values swapped: a.grad += n.grad * a_val
grad_mul_swapped(h, n) ==
  IF Len(h[n].inputs) # 2 THEN [h |-> h, err |-> ValueError]
  ELSE LET a == h[n].inputs[1]
           b == h[n].inputs[2]
           a_val == ValueOf(h, a)
           b_val == ValueOf(h, b)
       IN  IF IsErr(a_val) THEN [h |-> h, err |-> a_val]
           ELSE IF IsErr(b_val) THEN [h |-> h, err |-> b_val]
           ELSE [h |-> AddGrad(AddGrad(h, a, py_mul(h[n].grad, a_val)),
                               b, py_mul(h[n].grad, b_val)),
                 err |-> None]

\* the mul branch: a.grad += n.grad * b_val, then b.grad += n.grad * a_val
grad_mul(h, n) ==
  IF Len(h[n].inputs) # 2 THEN [h |-> h, err |-> ValueError]
  ELSE LET a == h[n].inputs[1]
           b == h[n].inputs[2]
           a_val == ValueOf(h, a)
           b_val == ValueOf(h, b)
       IN  IF IsErr(a_val) THEN [h |-> h, err |-> a_val]
           ELSE IF IsErr(b_val) THEN [h |-> h, err |-> b_val]
           ELSE [h |-> AddGrad(AddGrad(h, a, py_mul(h[n].grad, b_val)),
                               b, py_mul(h[n].grad, a_val)),
                 err |-> None]

\* grad_div without the minus sign: b.grad += n.grad * (a_val / (b_val * b_val))
grad_div_unsigned(h, n) ==
  IF Len(h[n].inputs) # 2 THEN [h |-> h, err |-> ValueError]
  ELSE LET a == h[n].inputs[1]
           b == h[n].inputs[2]
           a_val == ValueOf(h, a)
           b_val == ValueOf(h, b)
       IN  IF IsErr(a_val) THEN [h |-> h, err |-> a_val]
           ELSE IF IsErr(b_val) THEN [h |-> h, err |-> b_val]
           ELSE IF b_val[1] = 0 THEN [h |-> h, err |-> ZeroDivisionError]
           ELSE [h |-> AddGrad(AddGrad(h, a, py_div(h[n].grad, b_val)),
                               b, py_mul(h[n].grad,
                                         py_div(a_val, py_mul(b_val, b_val)))),
                 err |-> None]

\* the div branch: a.grad += n.grad / b_val, then
\* b.grad += n.grad * (-a_val / (b_val * b_val))
grad_div(h, n) ==
  IF Len(h[n].inputs) # 2 THEN [h |-> h, err |-> ValueError]
  ELSE LET a == h[n].inputs[1]
           b == h[n].inputs[2]
           a_val == ValueOf(h, a)
           b_val == ValueOf(h, b)
       IN  IF IsErr(a_val) THEN [h |-> h, err |-> a_val]
           ELSE IF IsErr(b_val) THEN [h |-> h, err |-> b_val]
           ELSE IF b_val[1] = 0 THEN [h |-> h, err |-> ZeroDivisionError]
           ELSE [h |-> AddGrad(AddGrad(h, a, py_div(h[n].grad, b_val)),
                               b, py_mul(h[n].grad,
                                         py_div(py_neg(a_val), py_mul(b_val, b_val)))),
                 err |-> None]

\* one iteration of the backward loop: node n hands its gradient to its
\* inputs; a constant, and an operator without a rule or a grad_fn, hand
\* nothing on
propagate(h, n) ==
  IF h[n].op = "add" THEN grad_add(h, n)
  ELSE IF h[n].op = "mul" THEN grad_mul(h, n)
  ELSE IF h[n].op = "div" THEN grad_div(h, n)
  ELSE [h |-> h, err |-> None]

\* for n in reversed(sorted_nodes), i counting down; an exception ends it
RECURSIVE backward(_, _, _)
backward(h, sorted_nodes, i) ==
  IF i = 0 THEN [h |-> h, err |-> None]
  ELSE LET x == propagate(h, sorted_nodes[i])
       IN  IF x.err # None THEN x ELSE backward(x.h, sorted_nodes, i - 1)

\* reset_gradients zeroing only the gradients that were never set
reset_gradients_unset_only(h, sorted_nodes, node, seed_grad) ==
  LET members == {sorted_nodes[i] : i \in 1..Len(sorted_nodes)}
      h0 == [n \in Ids(h) |-> IF n \in members /\ h[n].grad = None
                               THEN [h[n] EXCEPT !.grad = Num(0)] ELSE h[n]]
  IN  [h0 EXCEPT ![node].grad = seed_grad]

\* the reset loop, then node.grad = seed_grad
reset_gradients(h, sorted_nodes, node, seed_grad) ==
  LET members == {sorted_nodes[i] : i \in 1..Len(sorted_nodes)}
      h0 == [n \in Ids(h) |-> IF n \in members THEN [h[n] EXCEPT !.grad = Num(0)] ELSE h[n]]
  IN  [h0 EXCEPT ![node].grad = seed_grad]

compute_gradients(h, node, seed_grad) ==
  LET sorted_nodes == topological_sort(h, node)
  IN  backward(reset_gradients(h, sorted_nodes, node, seed_grad),
               sorted_nodes, Len(sorted_nodes))

(***************************************************************************)
(* The state machine.                                                      *)
(*   heap   the nodes built so far                                         *)
(*   last   the last operation applied: its name, the root it was given,   *)
(*          the root it returned, the exception it raised (None when it    *)
(*          returned), the seed gradient, and how many times in a row the  *)
(*          operation has been applied to its own result, and the number   *)
(*          it returned when it returns a number                           *)
(*   prev   the heap as it was when the last operation was called          *)
(*   calls  the number of operations applied                               *)
(*   pc     the number of statements of examples/complex_autodiff.py's     *)
(*          main() that have run                                           *)
(*   cache  self.cache of the jit object: for every cache key the output   *)
(*          node cached under it, 0 when the key is not in the cache       *)
(*   walk   during the backward loop of compute_gradients, the position in  *)
(*          sorted_nodes of the node the loop handles next; 0 otherwise    *)
(***************************************************************************)
NoCall ==
  [call |-> "none", arg |-> 0, ret |-> 0, err |-> None, seed |-> None, depth |-> 0,
   val |-> None]

Init ==
  /\ heap = <<>>
  /\ last = NoCall
  /\ prev = <<>>
  /\ calls = 0
  /\ pc = 0
  /\ cache = [k \in ArgTypes |-> 0]
  /\ walk = 0

\* the tracer runs before any operation is applied
Tracing == calls = 0 /\ pc = 0 /\ Len(heap) < MaxNodes

Traced(x) ==
  /\ heap' = x.h
  /\ UNCHANGED <<last, prev, calls, pc, cache, walk>>

Constant == \E v \in Vals : Tracing /\ Traced(constant(heap, v))

Add == \E a, b \in Ids(heap) : Tracing /\ Traced(add(heap, a, b))

Mul == \E a, b \in Ids(heap) : Tracing /\ Traced(mul(heap, a, b))

Div == \E a, b \in Ids(heap) : Tracing /\ Traced(div(heap, a, b))

\* examples/basic_usage.py, compute_expression: (2 + 3) * 4
compute_expression(h) ==
  LET a == constant(h, 2)
      b == constant(a.h, 3)
      c == constant(b.h, 4)
      s == add(c.h, a.r, b.r)
  IN  mul(s.h, s.r, c.r)

\* examples/optimization_demo.py, demo: a redundant subexpression
demo(h) ==
  LET a == constant(h, 2)
      b == constant(a.h, 3)
      sum1 == add(b.h, a.r, b.r)
      sum2 == add(sum1.h, a.r, b.r)
  IN  mul(sum2.h, sum1.r, sum2.r)

BasicUsage == heap = <<>> /\ calls = 0 /\ pc = 0 /\ Traced(compute_expression(heap))

Demo == heap = <<>> /\ calls = 0 /\ pc = 0 /\ Traced(demo(heap))

\* The first operation is given the expression the tracer built, every
\* traced node being part of it; a later one is given the root the
\* operation before it returned.
Callable(root) ==
  /\ calls < MaxCalls
  /\ pc = 0
  /\ last.err = None
  /\ IF calls = 0
     THEN root = Len(heap) /\ Reach(heap, root) = Ids(heap)
     ELSE root = last.ret

Depth(call, root) ==
  IF last.call = call /\ last.ret = root THEN last.depth + 1 ELSE 1

Called(call, root, x, err, seed) ==
  /\ heap' = x.h
  /\ last' = [call |-> call, arg |-> root, ret |-> x.r, err |-> err, seed |-> seed,
              depth |-> Depth(call, root), val |-> None]
  /\ prev' = heap
  /\ calls' = calls + 1
  /\ pc' = pc
  /\ cache' = cache
  /\ walk' = walk

ConstantFolding ==
  \E root \in Ids(heap) :
     /\ Callable(root)
     /\ Called("constant_folding", root, constant_folding_optimize(heap, root), None, None)

Cse ==
  \E root \in Ids(heap) :
     /\ Callable(root)
     /\ Called("cse", root, cse_optimize(heap, root), None, None)

DeadCode ==
  \E root \in Ids(heap) :
     /\ Callable(root)
     /\ Called("dead_code", root, dead_code_optimize(heap, root), None, None)

Fusion ==
  \E root \in Ids(heap) :
     /\ Callable(root)
     /\ Called("fusion", root, fusion_optimize(heap, root), None, None)

ApplyPatterns ==
  \E root \in Ids(heap) :
     /\ Callable(root)
     /\ LET x == apply_patterns(heap, root) IN Called("apply_patterns", root, x, x.err, None)

Compile ==
  \E root \in Ids(heap) :
     /\ Callable(root)
     /\ LET x == compile(heap, root) IN Called("compile", root, x, x.err, None)

Next ==
  \/ Constant
  \/ Add
  \/ Mul
  \/ Div
  \/ BasicUsage
  \/ Demo
  \/ ConstantFolding
  \/ Cse
  \/ DeadCode
  \/ Fusion
  \/ ApplyPatterns
  \/ Compile

Spec == Init /\ [][Next]_vars

(***************************************************************************)
(* Repeated compilation: the tracer builds an expression of up to MaxExpr  *)
(* nodes, then Compiler.compile is applied to it and to what it returned.  *)
(***************************************************************************)
TracingExpr == calls = 0 /\ pc = 0 /\ Len(heap) < MaxExpr

ExprConstant == \E v \in Vals : TracingExpr /\ Traced(constant(heap, v))

ExprAdd == \E a, b \in Ids(heap) : TracingExpr /\ Traced(add(heap, a, b))

ExprMul == \E a, b \in Ids(heap) : TracingExpr /\ Traced(mul(heap, a, b))

ExprDiv == \E a, b \in Ids(heap) : TracingExpr /\ Traced(div(heap, a, b))

NextCompile ==
  \/ ExprConstant
  \/ ExprAdd
  \/ ExprMul
  \/ ExprDiv
  \/ Compile

SpecCompile == Init /\ [][NextCompile]_vars

(***************************************************************************)
(* Evaluation: the tracer builds nodes, a caller may assign node.value (as *)
(* CachedGraph.__call__ of transforms/jit.py does), and trace evaluates    *)
(* any node, any number of times up to MaxCalls.                           *)
(***************************************************************************)
Cached(h) == {n \in Ids(h) : h[n].inputs # <<>> /\ h[n].value # None}

\* node.value = arg, on a node that has inputs
SetValue ==
  \E n \in Ids(heap), v \in Vals :
     /\ calls = 0
     /\ pc = 0
     /\ heap[n].inputs # <<>>
     /\ Cardinality(Cached(heap) \cup {n}) <= MaxCached
     /\ heap' = [heap EXCEPT ![n].value = Num(v)]
     /\ UNCHANGED <<last, prev, calls, pc, cache, walk>>

Evaluate ==
  \E node \in Ids(heap) :
     /\ calls < MaxCalls
     /\ pc = 0
     /\ LET x == trace(heap, node)
        IN  /\ heap' = x.h
            /\ last' = [call |-> "evaluate", arg |-> node, ret |-> node,
                        err |-> IF IsErr(x.r) THEN x.r ELSE None, seed |-> None,
                        depth |-> Depth("evaluate", node),
                        val |-> IF IsErr(x.r) THEN None ELSE x.r]
     /\ prev' = heap
     /\ calls' = calls + 1
     /\ pc' = pc
     /\ cache' = cache
     /\ walk' = walk

NextEval ==
  \/ Constant
  \/ Add
  \/ Mul
  \/ Div
  \/ SetValue
  \/ Evaluate

SpecEval == Init /\ [][NextEval]_vars

(***************************************************************************)
(* transforms/jit.py: f_jit of examples/jax_style.py, called up to         *)
(* MaxJitCalls times.                                                      *)
(***************************************************************************)
\* def f_jit(x): return add(mul(x, x), constant(1.0))
f_jit(h, x) ==
  LET m == mul(h, x, x)
      c == constant(m.h, 1)
  IN  add(c.h, m.r, c.r)

\* wrapped of jit.transform for one positional argument: the key is the
\* type of the argument; on a miss the function is traced on constant(arg)
\* and its output node is cached; the cached node is evaluated
jit_wrapped(h, c, arg, type) ==
  LET cache_key == type
      miss == c[cache_key] = 0
      traced == constant(h, arg)
      output == f_jit(traced.h, traced.r)
      h1 == IF miss THEN output.h ELSE h
      c1 == IF miss THEN [c EXCEPT ![cache_key] = output.r] ELSE c
      result == c1[cache_key]
  IN  [h |-> h1, cache |-> c1, node |-> result, r |-> evaluate(h1, result)]

Jit ==
  \E arg \in JitVals, type \in ArgTypes :
     /\ calls < MaxJitCalls
     /\ pc = 0
     /\ LET x == jit_wrapped(heap, cache, arg, type)
        IN  /\ heap' = x.h
            /\ cache' = x.cache
            /\ walk' = walk
            /\ last' = [call |-> "jit", arg |-> arg, ret |-> x.node,
                        err |-> IF IsErr(x.r) THEN x.r ELSE None, seed |-> type,
                        depth |-> 1, val |-> IF IsErr(x.r) THEN None ELSE x.r]
     /\ prev' = heap
     /\ calls' = calls + 1
     /\ pc' = pc

NextJit == Jit

SpecJit == Init /\ [][NextJit]_vars

(***************************************************************************)
(* Differentiation of traced graphs: the tracer, then compute_gradients.   *)
(* The first call differentiates the expression the tracer built; a later  *)
(* call may start from any node.                                           *)
(***************************************************************************)
ComputeGradients ==
  \E root \in Ids(heap), seed \in Seeds :
     /\ calls < MaxCalls
     /\ pc = 0
     /\ last.err = None
     /\ calls = 0 => (root = Len(heap) /\ Reach(heap, root) = Ids(heap))
     /\ LET x == compute_gradients(heap, root, Num(seed))
        IN  Called("compute_gradients", root, [h |-> x.h, r |-> root], x.err, Num(seed))

NextGrad ==
  \/ Constant
  \/ Add
  \/ Mul
  \/ Div
  \/ ComputeGradients

SpecGrad == Init /\ [][NextGrad]_vars

(***************************************************************************)
(* compute_gradients one iteration of its backward loop at a time.         *)
(***************************************************************************)
\* the sort, the reset loop and the seed; the loop starts at the last node
BeginGradients ==
  \E root \in Ids(heap), seed \in Seeds :
     /\ calls < MaxCalls
     /\ pc = 0
     /\ walk = 0
     /\ last.err = None
     /\ calls = 0 => (root = Len(heap) /\ Reach(heap, root) = Ids(heap))
     /\ LET sorted_nodes == topological_sort(heap, root)
        IN  /\ heap' = reset_gradients(heap, sorted_nodes, root, Num(seed))
            /\ walk' = Len(sorted_nodes)
     /\ last' = [call |-> "compute_gradients", arg |-> root, ret |-> root,
                 err |-> None, seed |-> Num(seed), depth |-> 1, val |-> None]
     /\ prev' = heap
     /\ calls' = calls + 1
     /\ UNCHANGED <<pc, cache>>

\* one iteration of for n in reversed(sorted_nodes); an exception ends the
\* loop
StepGradients ==
  /\ walk > 0
  /\ LET sorted_nodes == topological_sort(heap, last.arg)
         x == propagate(heap, sorted_nodes[walk])
     IN  /\ heap' = x.h
         /\ last' = [last EXCEPT !.err = x.err]
         /\ walk' = IF x.err # None THEN 0 ELSE walk - 1
  /\ UNCHANGED <<prev, calls, pc, cache>>

NextWalk ==
  \/ Constant
  \/ Add
  \/ Mul
  \/ Div
  \/ BeginGradients
  \/ StepGradients

SpecWalk == Init /\ [][NextWalk]_vars

(***************************************************************************)
(* Constant folding of traced graphs that may hold a constant without a    *)
(* value, on which the arithmetic of the folding raises.                   *)
(***************************************************************************)
ConstantNone == Tracing /\ Traced(constant_none(heap))

NextFold ==
  \/ Constant
  \/ ConstantNone
  \/ Add
  \/ Mul
  \/ Div
  \/ ConstantFolding

SpecFold == Init /\ [][NextFold]_vars

(***************************************************************************)
(* topological_sort applied to any node of a traced graph.                 *)
(***************************************************************************)
TopologicalSort ==
  \E node \in Ids(heap) :
     /\ calls < MaxCalls
     /\ pc = 0
     /\ heap' = heap
     /\ last' = [call |-> "topological_sort", arg |-> node, ret |-> node, err |-> None,
                 seed |-> None, depth |-> 1, val |-> topological_sort(heap, node)]
     /\ prev' = heap
     /\ calls' = calls + 1
     /\ pc' = pc
     /\ cache' = cache
     /\ walk' = walk

NextSort ==
  \/ Constant
  \/ Add
  \/ Mul
  \/ Div
  \/ TopologicalSort

SpecSort == Init /\ [][NextSort]_vars

(***************************************************************************)
(* Differentiation of fused graphs: the tracer, fusion.optimize on the     *)
(* traced expression, compute_gradients on any node.                       *)
(***************************************************************************)
NextFusedGrad ==
  \/ Constant
  \/ Add
  \/ Mul
  \/ Div
  \/ Fusion
  \/ ComputeGradients

SpecFusedGrad == Init /\ [][NextFusedGrad]_vars

(***************************************************************************)
(* transforms/grad.py: grad(f, argnums) for f(x, y) = x*x + y of           *)
(* tests/test_transforms.py, called on numbers up to MaxCalls times.       *)
(* An argument is [node |-> TRUE, v |-> id] once it is a Node and          *)
(* [node |-> FALSE, v |-> number] while it is a number.                    *)
(***************************************************************************)
\* if not isinstance(a, Node): a = constant(a)
as_node(h, a) == IF a.node THEN [h |-> h, r |-> a.v] ELSE constant(h, a.v)

\* def f(x, y): return add(mul(x, x), y)
f_x2_plus_y(h, x, y) ==
  LET a == as_node(h, x)
      b == as_node(a.h, x)
      m == mul(b.h, a.r, b.r)
      c == as_node(m.h, y)
  IN  add(c.h, m.r, c.r)

\* the traced_args loop: constant(arg) for an argument in argnums
RECURSIVE trace_args(_, _, _, _)
trace_args(h, argnums, args, acc) ==
  IF Len(acc) = Len(args) THEN [h |-> h, rs |-> acc]
  ELSE LET i == Len(acc)
       IN  IF InSeq(i, argnums)
           THEN LET c == constant(h, args[i + 1])
                IN  trace_args(c.h, argnums, args, Append(acc, [node |-> TRUE, v |-> c.r]))
           ELSE trace_args(h, argnums, args, Append(acc, [node |-> FALSE, v |-> args[i + 1]]))

\* grad_wrapped returning the gradients in the order of the arguments
grad_wrapped_in_argument_order(h, argnums, args) ==
  LET traced_args == trace_args(h, argnums, args, <<>>)
      output == f_x2_plus_y(traced_args.h, traced_args.rs[1], traced_args.rs[2])
      x == compute_gradients(output.h, output.r, Num(1))
      order == IF Len(argnums) = 2 THEN <<0, 1>> ELSE argnums
      grads == [i \in 1..Len(order) |-> x.h[traced_args.rs[order[i] + 1].v].grad]
  IN  [h |-> x.h, node |-> output.r, err |-> x.err,
       r |-> IF Len(argnums) = 1 THEN grads[1] ELSE grads]

\* wrapped of GradTransform.transform (has_aux False): trace the arguments
\* named by argnums, build the graph, compute_gradients(output), return
\* the grad of the one argument or the tuple of grads in argnums order
grad_wrapped(h, argnums, args) ==
  LET traced_args == trace_args(h, argnums, args, <<>>)
      output == f_x2_plus_y(traced_args.h, traced_args.rs[1], traced_args.rs[2])
      x == compute_gradients(output.h, output.r, Num(1))
      grads == [i \in 1..Len(argnums) |-> x.h[traced_args.rs[argnums[i] + 1].v].grad]
  IN  [h |-> x.h, node |-> output.r, err |-> x.err,
       r |-> IF Len(argnums) = 1 THEN grads[1] ELSE grads]

Grad ==
  \E argnums \in Argnums, x \in GradVals, y \in GradVals :
     /\ calls < MaxCalls
     /\ pc = 0
     /\ last.err = None
     /\ LET g == grad_wrapped(heap, argnums, <<x, y>>)
        IN  /\ heap' = g.h
            /\ last' = [call |-> "grad", arg |-> <<x, y>>, ret |-> g.node,
                        err |-> g.err, seed |-> argnums, depth |-> 1,
                        val |-> IF g.err = None THEN g.r ELSE None]
     /\ prev' = heap
     /\ calls' = calls + 1
     /\ pc' = pc
     /\ cache' = cache
     /\ walk' = walk

NextGradTransform == Grad

SpecGradTransform == Init /\ [][NextGradTransform]_vars

(***************************************************************************)
(* examples/complex_autodiff.py, main(): f(x) = x*x + 1,                   *)
(* g(x) = x*x - 1/(x*x*x) and h(x) = f(x)*g(x) on one shared node x, then  *)
(* compute_gradients on f, on g and on h.  One action per statement; an    *)
(* exception ends the script.                                              *)
(***************************************************************************)
\* the nodes main() binds to x, f, the operands of one_over_x_cubed, g and h
MainX == 1

MainF == 4

MainXCubed == 7

MainOne == 8

MainDiv == 9

MainG == 12

MainH == 13

Stmt(n, h) ==
  /\ pc = n
  /\ last.err = None
  /\ heap' = h
  /\ pc' = pc + 1
  /\ UNCHANGED <<last, prev, calls, cache, walk>>

\* x = constant(2.0), at any point of MainVals
MainL43 == \E x \in MainVals : heap = <<>> /\ calls = 0 /\ Stmt(0, constant(heap, x).h)

\* x_squared = mul(x, x)
MainL46 == Stmt(1, mul(heap, MainX, MainX).h)

\* f = add(x_squared, constant(1.0))
MainL47 == Stmt(2, LET c == constant(heap, 1) IN add(c.h, 2, c.r).h)

\* x_squared_2 = mul(x, x)
MainL50 == Stmt(3, mul(heap, MainX, MainX).h)

\* x_cubed = mul(x, mul(x, x))
MainL51 == Stmt(4, LET m == mul(heap, MainX, MainX) IN mul(m.h, MainX, m.r).h)

\* one_over_x_cubed = div(constant(1.0), x_cubed)
MainL52 == Stmt(5, LET c == constant(heap, 1) IN div(c.h, c.r, MainXCubed).h)

\* g = add(x_squared_2, mul(constant(-1.0), one_over_x_cubed))
MainL53 ==
  Stmt(6, LET c == constant(heap, -1)
              m == mul(c.h, c.r, MainDiv)
          IN  add(m.h, 5, m.r).h)

\* h = mul(f, g)
MainL56 == Stmt(7, mul(heap, MainF, MainG).h)

\* x.grad = 0.0; compute_gradients(root)
MainGrad(n, root) ==
  /\ pc = n
  /\ last.err = None
  /\ LET h0 == [heap EXCEPT ![MainX].grad = Num(0)]
         x == compute_gradients(h0, root, Num(1))
     IN  /\ heap' = x.h
         /\ last' = [call |-> "compute_gradients", arg |-> root, ret |-> root,
                     err |-> x.err, seed |-> Num(1), depth |-> 1,
                     val |-> None]
         /\ prev' = heap
  /\ calls' = calls + 1
  /\ pc' = pc + 1
  /\ cache' = cache
  /\ walk' = walk

MainL60 == MainGrad(8, MainF)

MainL69 == MainGrad(9, MainG)

MainL77 == MainGrad(10, MainH)

NextMain ==
  \/ MainL43
  \/ MainL46
  \/ MainL47
  \/ MainL50
  \/ MainL51
  \/ MainL52
  \/ MainL53
  \/ MainL56
  \/ MainL60
  \/ MainL69
  \/ MainL77

SpecMain == Init /\ [][NextMain]_vars

(***************************************************************************)
(* Properties.                                                             *)
(***************************************************************************)
\* the operators of the nodes reachable from n
OpsOf(h, n) == {h[m].op : m \in Reach(h, n)}

\* the first operation applied to the traced expression was `call`
First(call) == calls = 1 /\ last.call = call

\* an operation returned a single constant node holding v
ReturnsConstant(v) ==
  /\ last.err = None
  /\ heap[last.ret].op = "const"
  /\ heap[last.ret].inputs = <<>>
  /\ heap[last.ret].value = v

\* C1: Compiler.compile turns every traced graph over add and mul (all of
\* whose leaves are constants) into a single constant node, without inputs,
\* whose value is what evaluate returns on the graph before compilation.
C1_CompileFoldsAddMul ==
  (First("compile") /\ OpsOf(prev, last.arg) \subseteq {"const", "add", "mul"})
     => ReturnsConstant(evaluate(prev, last.arg))

\* C1 as first stated: the same for every traced graph over add, mul and div.
C1_CompileFoldsAddMulDiv ==
  (First("compile") /\ ~IsErr(evaluate(prev, last.arg)))
     => ReturnsConstant(evaluate(prev, last.arg))

\* C1 witness: (2 + 3) * 4 of examples/basic_usage.py compiled to constant 20
C1_Witness ==
  /\ First("compile")
  /\ prev[last.arg].op = "mul"
  /\ prev[prev[last.arg].inputs[1]].op = "add"
  /\ ReturnsConstant(Num(20))

Passes == {"constant_folding", "cse", "dead_code", "fusion", "apply_patterns"}

\* C2: each of the five passes applied on its own to a traced graph, and
\* compile, returns a graph on which evaluate succeeds with the value
\* evaluate had on the input graph.
C2_PassesPreserveEvaluate ==
  (calls = 1 /\ last.call \in Passes \cup {"compile"} /\ ~IsErr(evaluate(prev, last.arg)))
     => (last.err = None /\ evaluate(heap, last.ret) = evaluate(prev, last.arg))

\* C3: compile applied to the result of compile returns, and evaluate on
\* the second result ends as evaluate on the first result did: with the
\* same value (or, where the first raised, with the same exception).
C3_CompileTwice ==
  (last.call = "compile" /\ last.depth = 2)
     => (last.err = None /\ evaluate(heap, last.ret) = evaluate(prev, last.arg))

\* two subexpressions with the same operator and the same input values
RECURSIVE SameExpr(_, _, _)
SameExpr(h, p, q) ==
  /\ h[p].op = h[q].op
  /\ h[p].value = h[q].value
  /\ Len(h[p].inputs) = Len(h[q].inputs)
  /\ \A i \in 1..Len(h[p].inputs) : SameExpr(h, h[p].inputs[i], h[q].inputs[i])

\* C4: when the two inputs of a consumer are subexpressions with the same
\* operator and the same input values (sharing their constants or not),
\* both input slots of the consumer hold one node after cse.optimize.
C4_CseMergesEqualSubexpressions ==
  (/\ First("cse")
   /\ Len(prev[last.arg].inputs) = 2
   /\ SameExpr(prev, prev[last.arg].inputs[1], prev[last.arg].inputs[2]))
     => heap[last.ret].inputs[1] = heap[last.ret].inputs[2]

\* C5: dead_code.optimize returns the root it was given and changes no
\* node, so evaluate on its result is evaluate on its input.
C5_DeadCodeChangesNothing ==
  last.call = "dead_code" =>
     /\ last.ret = last.arg
     /\ heap = prev
     /\ evaluate(heap, last.ret) = evaluate(prev, last.arg)

\* C5 witness: dead_code.optimize has run on a node with a shared input
C5_Witness ==
  /\ last.call = "dead_code"
  /\ Len(heap[last.arg].inputs) = 2
  /\ heap[last.arg].inputs[1] = heap[last.arg].inputs[2]
  /\ heap[heap[last.arg].inputs[1]].inputs # <<>>

IsLiteral(h, n, k) == h[n].op = "const" /\ h[n].value = Num(k)

\* C6: the pattern pass turns multiply(x, constant(0)), in either operand
\* order and for every node x, into a constant node holding 0.
C6_MulZeroBecomesZero ==
  (/\ First("apply_patterns")
   /\ prev[last.arg].op = "mul"
   /\ \E i \in 1..2 : IsLiteral(prev, prev[last.arg].inputs[i], 0))
     => (last.err = None /\ heap[last.ret].op = "const" /\ heap[last.ret].value = Num(0))

\* C7: the pattern pass turns multiply(x, constant(1)), in either operand
\* order and for every node x, into the very node x rewrites to: the
\* operand of the rewritten multiply that is not the literal 1.
C7_MulOneBecomesOperand ==
  (/\ First("apply_patterns")
   /\ prev[last.arg].op = "mul"
   /\ \E i \in 1..2 : IsLiteral(prev, prev[last.arg].inputs[i], 1))
     => /\ last.err = None
        /\ \E i \in 1..2 :
              /\ IsLiteral(prev, prev[last.arg].inputs[i], 1)
              /\ last.ret = heap[last.arg].inputs[3 - i]

\* the root compute_gradients was last called on, and its two operands
GradRoot == last.arg

GradA == heap[GradRoot].inputs[1]

GradB == heap[GradRoot].inputs[2]

GradOf(op) ==
  /\ last.call = "compute_gradients"
  /\ heap[GradRoot].op = op
  /\ GradA # GradB

AddRule == heap[GradA].grad = last.seed /\ heap[GradB].grad = last.seed

MulRule ==
  /\ last.err = None
  /\ heap[GradA].grad = py_mul(last.seed, ValueOf(heap, GradB))
  /\ heap[GradB].grad = py_mul(last.seed, ValueOf(heap, GradA))

HasValues == ~IsErr(ValueOf(heap, GradA)) /\ ~IsErr(ValueOf(heap, GradB))

\* neither operand is reachable from the other through input edges
Independent == GradA \notin Reach(heap, GradB) /\ GradB \notin Reach(heap, GradA)

\* C8: for distinct nodes a and b neither of which is reachable from the
\* other, after compute_gradients(add(a, b), seed) a.grad = b.grad = seed,
\* and after compute_gradients(mul(a, b), seed), value(a) and value(b)
\* being defined, a.grad = seed * value(b) and b.grad = seed * value(a).
C8_GradOfIndependentOperands ==
  /\ (GradOf("add") /\ Independent) => AddRule
  /\ (GradOf("mul") /\ Independent /\ HasValues) => MulRule

\* C8 as first stated: the same for every pair of distinct nodes a and b.
C8_GradOfDistinctOperands ==
  /\ GradOf("add") => AddRule
  /\ (GradOf("mul") /\ HasValues) => MulRule

\* C8 witness: compute_gradients(mul(a, b), seed) on independent operands
\* that are expressions of different values, with a seed other than 1
C8_Witness ==
  /\ GradOf("mul")
  /\ Independent
  /\ heap[GradA].inputs # <<>>
  /\ last.seed = Num(2)
  /\ ValueOf(heap, GradA) = Num(4)
  /\ heap[GradA].grad = Num(2)
  /\ heap[GradB].grad = Num(8)

\* the local partial derivative of consumer c with respect to input slot i
Partial(h, c, i) ==
  IF h[c].op = "add" THEN Num(1)
  ELSE IF h[c].op = "mul" THEN ValueOf(h, h[c].inputs[3 - i])
  ELSE IF h[c].op = "div" /\ i = 1 THEN py_div(Num(1), ValueOf(h, h[c].inputs[2]))
  ELSE IF h[c].op = "div"
  THEN py_div(py_neg(ValueOf(h, h[c].inputs[1])),
              py_mul(ValueOf(h, h[c].inputs[2]), ValueOf(h, h[c].inputs[2])))
  ELSE Num(0)

\* what consumer c hands to node m: its grad times the partial, once for
\* every input slot of c that reads m
RECURSIVE Handed(_, _, _, _)
Handed(h, c, m, i) ==
  IF i = 0 THEN Num(0)
  ELSE py_add(Handed(h, c, m, i - 1),
              IF h[c].inputs[i] = m THEN py_mul(h[c].grad, Partial(h, c, i)) ELSE Num(0))

\* the sum of what the consumers 1..c that are in R hand to node m
RECURSIVE Contributions(_, _, _, _)
Contributions(h, R, m, c) ==
  IF c = 0 THEN Num(0)
  ELSE py_add(Contributions(h, R, m, c - 1),
              IF c \in R THEN Handed(h, c, m, Len(h[c].inputs)) ELSE Num(0))

\* C9: after compute_gradients(root, seed) on a DAG over add and mul, the
\* grad of every reachable node other than root is the sum, over every
\* reachable consumer and every input slot of it that reads the node, of
\* the consumer's grad times the local partial derivative.
C9_GradIsSumOverConsumers ==
  (/\ last.call = "compute_gradients"
   /\ OpsOf(heap, GradRoot) \subseteq {"const", "add", "mul"})
     => /\ last.err = None
        /\ heap[GradRoot].grad = last.seed
        /\ \A m \in Reach(heap, GradRoot) \ {GradRoot} :
              heap[m].grad = Contributions(heap, Reach(heap, GradRoot), m, Len(heap))

\* C9 witness: f(x) = x*x + 1 at x = 2 with seed 1 gives x.grad = 4
C9_Witness ==
  /\ last.call = "compute_gradients"
  /\ last.seed = Num(1)
  /\ heap[GradRoot].op = "add"
  /\ heap[GradA].op = "mul"
  /\ IsLiteral(heap, GradB, 1)
  /\ heap[GradA].inputs[1] = heap[GradA].inputs[2]
  /\ IsLiteral(heap, heap[GradA].inputs[1], 2)
  /\ heap[heap[GradA].inputs[1]].grad = Num(4)

\* C10: in main() of examples/complex_autodiff.py, whenever
\* compute_gradients has walked the node div(a, b) (a = constant(1),
\* b = x*x*x, each read by the div alone), a.grad = g / value(b) and
\* b.grad = g * (-value(a) / value(b)^2) for g the grad of the div; and
\* compute_gradients(g) at x = 2 leaves x.grad = 67/16 = 4.1875.
C10_DivRuleAndExample ==
  (last.call = "compute_gradients" /\ last.err = None /\ MainDiv \in Reach(heap, last.arg))
     => /\ heap[MainOne].grad = py_div(heap[MainDiv].grad, ValueOf(heap, MainXCubed))
        /\ heap[MainXCubed].grad =
              py_mul(heap[MainDiv].grad,
                     py_div(py_neg(ValueOf(heap, MainOne)),
                            py_mul(ValueOf(heap, MainXCubed), ValueOf(heap, MainXCubed))))
        /\ (last.arg = MainG /\ heap[MainX].value = Num(2)) => heap[MainX].grad = <<67, 16>>

\* C10 witness: compute_gradients(g) has returned at x = 2
C10_Witness ==
  /\ pc = 10
  /\ last.arg = MainG
  /\ last.err = None
  /\ heap[MainX].value = Num(2)
  /\ heap[MainDiv].grad = Num(-1)
  /\ heap[MainX].grad = <<67, 16>>

\* a freshly built copy of the graph: the same nodes, no gradient set yet
FreshCopy(h) == [n \in Ids(h) |-> [h[n] EXCEPT !.grad = None]]

\* C11: after every compute_gradients call of a sequence, the call ended
\* (returned or raised) as a single call on a freshly built copy of the
\* graph ends, and every node reachable from the root holds the gradient
\* that single call leaves on it.
C11_NoGradientLeak ==
  last.call = "compute_gradients" =>
     LET x == compute_gradients(FreshCopy(prev), last.arg, last.seed)
     IN  /\ last.err = x.err
         /\ \A m \in Reach(heap, last.arg) : heap[m].grad = x.h[m].grad

\* C11 witness: a second call whose root shares a node with the first; the
\* node held a non-zero gradient of the first call and holds another now
C11_Witness ==
  /\ last.call = "compute_gradients"
  /\ calls = 2
  /\ last.err = None
  /\ \E m \in Reach(heap, last.arg) \ {last.arg} :
        /\ prev[m].grad \notin {None, Num(0)}
        /\ heap[m].grad # prev[m].grad

\* C12: a call of evaluate leaves every node as it was (op, inputs, value,
\* grad and the rest); when node.value is present the call returns it, the
\* inputs not being evaluated; and a call that follows a call on the same
\* node ends as that one did.
C12_EvaluateMutatesNothing ==
  [][(calls' = calls + 1 /\ last'.call = "evaluate")
       => /\ heap' = heap
          /\ heap[last'.arg].value # None
                => (last'.err = None /\ last'.val = heap[last'.arg].value)
          /\ (last.call = "evaluate" /\ last.arg = last'.arg)
                => (last'.val = last.val /\ last'.err = last.err)]_vars

\* C12 witness: evaluate called twice on a node that has a value assigned
\* and an input whose evaluation raises; it returned the assigned value
C12_Witness ==
  /\ last.call = "evaluate"
  /\ last.depth = 2
  /\ heap[last.arg].inputs # <<>>
  /\ last.val = heap[last.arg].value
  /\ last.val # None
  /\ \E i \in 1..Len(heap[last.arg].inputs) :
        IsErr(evaluate(heap, heap[last.arg].inputs[i]))

\* the nodes reachable from n whose operator has no gradient rule
NoRule(h, n) == {m \in Reach(h, n) : h[m].op \notin {"const", "add", "mul", "div"}}

\* C13: compute_gradients on a graph that holds a node whose operator has
\* no gradient rule (a fused operator; no node carries a grad_fn) returns
\* without raising, and every reachable node other than the root holds the
\* sum of what its consumers hand to it, such a node handing on nothing.
C13_UnknownOperatorAddsNothing ==
  (last.call = "compute_gradients" /\ NoRule(prev, last.arg) # {})
     => /\ last.err = None
        /\ heap[last.arg].grad = last.seed
        /\ \A m \in Reach(heap, last.arg) \ {last.arg} :
              heap[m].grad = Contributions(heap, Reach(heap, last.arg), m, Len(heap))

\* C14: every call of the jitted f_jit returns the value f_jit has on the
\* argument of that call: evaluate on f_jit traced on constant(arg).
C14_JitReturnsValueOfThisCall ==
  last.call = "jit" =>
     LET traced == constant(<<>>, last.arg)
         output == f_jit(traced.h, traced.r)
     IN  last.err = None /\ last.val = evaluate(output.h, output.r)

\* the partial derivatives of x*x + y at (x, y): 2x and 1
PartialsOfF(args) == <<py_mul(Num(2), Num(args[1])), Num(1)>>

C16_TopologicalSort ==
  last.call = "topological_sort" =>
     LET order == last.val
         R == Reach(heap, last.arg)
     IN  /\ {order[i] : i \in 1..Len(order)} = R
         /\ Len(order) = Cardinality(R)
         /\ \A i \in 1..Len(order) :
               \A k \in 1..Len(heap[order[i]].inputs) :
                  \E j \in 1..(i - 1) : order[j] = heap[order[i]].inputs[k]
         /\ order[Len(order)] = last.arg

\* C16 witness: a sorted graph of four nodes one of which is read by two
\* different consumers
C16_Witness ==
  /\ last.call = "topological_sort"
  /\ Len(last.val) = 4
  /\ \E m \in Ids(heap) : \E c, d \in Reach(heap, last.arg) :
        /\ c # d
        /\ InSeq(m, heap[c].inputs)
        /\ InSeq(m, heap[d].inputs)

\* the key cse.optimize files a node under
CseKey(h, n) == <<h[n].op, h[n].inputs, h[n].value>>

\* two nodes that compute the same subexpression: the same node, or nodes
\* with inputs, the same operator and value, and inputs that pairwise do
RECURSIVE SameSubexpr(_, _, _)
SameSubexpr(h, p, q) ==
  \/ p = q
  \/ /\ h[p].inputs # <<>>
     /\ h[p].op = h[q].op
     /\ h[p].value = h[q].value
     /\ Len(h[p].inputs) = Len(h[q].inputs)
     /\ \A i \in 1..Len(h[p].inputs) : SameSubexpr(h, h[p].inputs[i], h[q].inputs[i])

\* the position of node n in the sequence order
Pos(order, n) == CHOOSE i \in 1..Len(order) : order[i] = n

\* C17: after cse.optimize no two distinct nodes with inputs reachable
\* from the returned root have the same operator, the same tuple of input
\* identities and the same value; and of the nodes of the input graph that
\* compute one subexpression, the node kept is the first one the walk
\* completes (the first in post-order from the root).
C17_CseKeepsFirstOfEachKey ==
  last.call = "cse" =>
     LET R == {n \in Reach(heap, last.ret) : heap[n].inputs # <<>>}
         order == topological_sort(prev, last.arg)
     IN  /\ \A p, q \in R : CseKey(heap, p) = CseKey(heap, q) => p = q
         /\ \A n \in R : \A m \in Reach(prev, last.arg) :
               (m # n /\ SameSubexpr(prev, m, n)) => Pos(order, n) < Pos(order, m)

\* C17 witness: cse.optimize on the graph of examples/optimization_demo.py
\* left both inputs of the root on sum1, the first of the two sums
C17_Witness ==
  /\ First("cse")
  /\ Len(heap) = 5
  /\ prev[last.arg].inputs = <<3, 4>>
  /\ heap[last.ret].inputs = <<3, 3>>

\* the four passes the pipeline expects to be idempotent
IdempotentPasses == {"constant_folding", "cse", "dead_code", "apply_patterns"}

\* the pairs of nodes met when graph p of heap h1 and graph q of heap h2
\* are walked together, input slot by input slot
RECURSIVE Paired(_, _, _, _)
Paired(h1, p, h2, q) ==
  {<<p, q>>} \cup
  UNION {Paired(h1, h1[p].inputs[i], h2, h2[q].inputs[i]) :
            i \in 1..(IF Len(h1[p].inputs) < Len(h2[q].inputs)
                      THEN Len(h1[p].inputs) ELSE Len(h2[q].inputs))}

\* graph p of h1 and graph q of h2 have the same shape, operators and
\* values: paired nodes agree on operator, value and number of inputs, and
\* two input slots share a node in one graph exactly when they do in the other
SameStructure(h1, p, h2, q) ==
  LET P == Paired(h1, p, h2, q)
  IN  /\ \A x \in P : /\ h1[x[1]].op = h2[x[2]].op
                      /\ h1[x[1]].value = h2[x[2]].value
                      /\ Len(h1[x[1]].inputs) = Len(h2[x[2]].inputs)
      /\ \A x, y \in P : (x[1] = y[1]) <=> (x[2] = y[2])

\* a pass was applied to the root it returned itself the call before
Reapplied == last.call \in IdempotentPasses /\ last.depth >= 2

\* C18: constant folding, CSE, dead-code elimination and pattern rewrite,
\* applied to their own output, return without raising a graph with the
\* same shape, operators and values as that output.
C18_PassesIdempotentOnStructure ==
  Reapplied => (last.err = None /\ SameStructure(prev, last.arg, heap, last.ret))

\* a pass that rewrote the traced expression, leaving some traced node out of
\* its result, has been applied to that result, which still has operators
C18_Witness ==
  /\ Reapplied
  /\ last.err = None
  /\ heap[last.ret].inputs # <<>>
  /\ Reach(heap, last.ret) # Ids(heap)

\* producer p and consumer c meet the fusion conditions: p is one of the two
\* inputs of c, their operators are a pair of the table, and their declared
\* shapes agree when both declare one
Fusable(h, p, c) ==
  /\ Len(h[c].inputs) = 2
  /\ InSeq(p, h[c].inputs)
  /\ METAL_FUSION_PATTERNS(h[p].op, h[c].op) # "None"
  /\ (h[p].shape # NoKey /\ h[c].shape # NoKey) => h[p].shape = h[c].shape

\* the fused nodes of the graph returned by fusion.optimize
FusedNodes == {f \in Reach(heap, last.ret) : heap[f].original_nodes # <<>>}

\* fused node f stands for producer p followed by consumer c
FusesPair(f, p, c) ==
  /\ heap[f].original_nodes = <<p, c>>
  /\ heap[f].op = METAL_FUSION_PATTERNS(prev[p].op, prev[c].op)
  /\ heap[f].fused_ops = <<prev[p].op, prev[c].op>>

\* C19: fusion.optimize replaces every producer/consumer pair meeting the
\* fusion conditions, the producer in either input position, by one node
\* carrying the table's tag and the two operators in producer-to-consumer
\* order, and fuses no pair that fails one of the conditions.
C19_FusionFusesTablePairs ==
  First("fusion") =>
     /\ \A c \in Reach(prev, last.arg) : \A p \in Reach(prev, last.arg) :
           Fusable(prev, p, c) =>
              /\ \E f \in FusedNodes : FusesPair(f, p, c)
              /\ {p, c} \cap Reach(heap, last.ret) = {}
     /\ \A f \in FusedNodes :
           \A k \in 1..(Len(heap[f].original_nodes) - 1) :
              Fusable(prev, heap[f].original_nodes[k], heap[f].original_nodes[k + 1])

\* the nodes fusion.optimize found to be members of a fusion group
GroupMembers ==
  LET groups == find_fusion_candidates(prev, last.arg)
  IN  UNION {{groups[g][i] : i \in 1..Len(groups[g])} : g \in 1..Len(groups)}

\* C20: after fusion.optimize no member of a found fusion group is reachable
\* from the returned root, and no fused node has a member of its own group
\* among its inputs.
C20_FusedMembersUnreachable ==
  First("fusion") =>
     /\ GroupMembers \cap Reach(heap, last.ret) = {}
     /\ \A f \in FusedNodes :
           \A i \in 1..Len(heap[f].inputs) :
              ~InSeq(heap[f].inputs[i], heap[f].original_nodes)

\* the values held by the inputs of node n
InputValues(h, n) == [i \in 1..Len(h[n].inputs) |-> h[h[n].inputs[i]].value]

\* every input of node n is a constant node
AllConst(h, n) == \A i \in 1..Len(h[n].inputs) : h[h[n].inputs[i]].op = "const"

\* applying the operator of n to the values of its constant inputs raises
FoldingFails(h, n) ==
  /\ h[n].op # "const"
  /\ AllConst(h, n)
  /\ \/ HasNone(InputValues(h, n))
     \/ IsErr(ApplyOp(h[n].op, InputValues(h, n)))

\* the nodes of the argument graph on which folding failed
FailedNodes == {n \in Reach(prev, last.arg) : FoldingFails(heap, n)}

\* C21: when applying the operator to the constant input values of a node
\* fails, constant_folding.optimize does not raise, the node stays in the
\* returned graph with its operator, every add and mul of the returned graph
\* whose inputs are all constants is one that failed, and the returned graph
\* evaluates to what the argument evaluated to (the same value or the same
\* exception).
C21_FoldingFailureLeavesNodeUnfolded ==
  (First("constant_folding") /\ FailedNodes # {}) =>
     /\ last.err = None
     /\ \A n \in FailedNodes :
           n \in Reach(heap, last.ret) /\ heap[n].op = prev[n].op
     /\ \A m \in Reach(heap, last.ret) :
           (heap[m].op \in {"add", "mul"} /\ AllConst(heap, m)) => m \in FailedNodes
     /\ evaluate(heap, last.ret) = evaluate(prev, last.arg)

\* folding raised TypeError on an add or mul over a constant without a value
\* while another node of the graph was folded to a new constant
C21_Witness ==
  /\ First("constant_folding")
  /\ \E n \in FailedNodes :
        heap[n].op \in {"add", "mul"} /\ HasNone(InputValues(heap, n))
  /\ Len(heap) > Len(prev)
  /\ last.err = None

\* the nodes that are inputs of a node of S
InputsOf(h, S) == UNION {{h[n].inputs[i] : i \in 1..Len(h[n].inputs)} : n \in S}

\* S closed under taking inputs, in at most k rounds
RECURSIVE InputClosure(_, _, _)
InputClosure(h, S, k) ==
  IF k = 0 \/ InputsOf(h, S) \subseteq S THEN S
  ELSE InputClosure(h, S \cup InputsOf(h, S), k - 1)

\* the nodes that are transitively inputs of n
TransitiveInputs(h, n) == InputClosure(h, InputsOf(h, {n}), Len(h))

\* C22: after any sequence of tracer constructions and optimization passes
\* no node is transitively one of its own inputs.
C22_GraphStaysAcyclic ==
  \A n \in Ids(heap) : n \notin TransitiveInputs(heap, n)

\* a pass rewrote in place the inputs of a node of a graph that an earlier
\* fusion had put a fused node into
C22_Witness ==
  /\ calls >= 2
  /\ last.err = None
  /\ \E n \in Ids(prev) : heap[n].inputs # prev[n].inputs
  /\ \E f \in Reach(heap, last.ret) : heap[f].original_nodes # <<>>

\* C23: apply_patterns returns without raising on every graph the tracer
\* builds from constant, add, mul and div, a multiply of two literal 1 and a
\* multiply of a literal 0 and a literal 1 included.
C23_ApplyPatternsNeverRaises ==
  First("apply_patterns") => last.err = None

\* the number of inputs an operator of the tracer takes
Arity(op) == IF op = "const" THEN 0 ELSE 2

\* a pass or compile has been applied to the traced graph, whose root
\* evaluated to a value before the call
OriginalEvaluated ==
  /\ calls = 1
  /\ last.call \in Passes \cup {"compile"}
  /\ ~IsErr(evaluate(prev, last.arg))

WalkOrder == topological_sort(heap, last.arg)

\* the consumers of node n in the graph being differentiated
ConsumersOf(n) == {c \in Reach(heap, last.arg) : InSeq(n, heap[c].inputs)}

\* C25: in every iteration of the backward loop, the node handled has
\* already been handed the gradient of every consumer it has in the graph
\* of root (they come later in sorted_nodes), and the iteration changes the
\* grad neither of that node nor of any node handled before it.
C25_GradFinalWhenProcessed ==
  [][walk > 0 =>
       /\ \A c \in ConsumersOf(WalkOrder[walk]) : Pos(WalkOrder, c) > walk
       /\ \A m \in Reach(heap, last.arg) :
             Pos(WalkOrder, m) >= walk => heap'[m].grad = heap[m].grad]_vars

\* the loop is about to handle an operator node that two different
\* consumers have handed a gradient to
C25_Witness ==
  /\ walk > 0
  /\ Cardinality(ConsumersOf(WalkOrder[walk])) >= 2
  /\ heap[WalkOrder[walk]].inputs # <<>>
  /\ heap[WalkOrder[walk]].grad \notin {None, Num(0)}

====
